---- MODULE Spec2Model ----
(***************************************************************************)
(* ResearchFlow: the retrieval engine (VectorStore, Retriever) and the     *)
(* grounded-generation orchestrator (Translator).                          *)
(*                                                                         *)
(* Numbers: a similarity or an average is kept in units of 1e-4 (the code  *)
(* rounds both to 4 decimals), a cosine distance in units of 1e-6.         *)
(* Text: a str is kept as its runs of equal characters.                    *)
(* A formatted string (an f-string): a sequence of pieces, each a literal  *)
(* ("lit"), an interpolated text ("txt") or an interpolated number ("num").*)
(***************************************************************************)
EXTENDS Integers, Sequences, FiniteSets, TLC

VARIABLES
    store,            \* ChromaDB: existing collection name -> set of stored items
    collection_name,  \* Retriever.collection_name
    n_results,        \* Retriever.n_results
    pc,               \* position of the call in progress ("idle": none)
    req,              \* the call in progress, or the last one made
    loc,              \* local variables of the call in progress
    embedLog,         \* texts given to Embedder.embed_single by this call
    searchLog,        \* VectorStore.search calls made by this call
    llmLog,           \* message lists given to ChatOllama.invoke by this call
    result,           \* what the last call returned or raised
    self_chunks,      \* Chunker.chunks
    session_state,    \* st.session_state of the Streamlit session
    callers           \* the callers of get_pipeline: where each one is in it

vars == <<store, collection_name, n_results, pc, req, loc,
          embedLog, searchLog, llmLog, result, self_chunks, session_state, callers>>

-----------------------------------------------------------------------------
(* Bounds of the model *)

\* n_results ranges over 1..MaxN
MaxN == 3
\* one add_chunks call carries at most MaxBatch ids
MaxBatch == 2
\* one split makes at most MaxChunks chunks
MaxChunks == 3
\* chunk ids are compared for the indices 0..MaxIndex
MaxIndex == 11
\* the chat history holds at most MaxQuestions questions and their replies
MaxQuestions == 2

(* Program constants *)

\* render_sidebar: the least number of chunks the slider offers
SliderMin == 2
\* render_sidebar: the slider's value when the session starts
SliderDefault == 5

\* translate: text[:200]
PrefixLen == 200
\* translate: chunks[:2]
TopRefs == 2
\* answer_question: avg_relevance < 0.25, in units of 1e-4
LowRelevance == 2500
\* is_relevant: threshold: float = 0.3, in units of 1e-4
DefaultThreshold == 3000

SUPPORTED_LANGUAGES ==
    <<"Hindi", "Gujarati", "Spanish", "French", "German",
      "Chinese", "Japanese", "Arabic", "Portuguese", "Italian",
      "Korean", "Russian", "Dutch", "Turkish", "Bengali">>

-----------------------------------------------------------------------------
(* Text: a str, kept as its runs of equal characters: the sequence of      *)
(* [c |-> character, n |-> how many times it repeats], n >= 1, adjacent    *)
(* runs of different characters. "aab" is <<[c |-> "a", n |-> 2],          *)
(* [c |-> "b", n |-> 1]>>.                                                  *)

Whitespace == {" ", "\n", "\t"}

\* c * n
Rep(c, n) == IF n = 0 THEN <<>> ELSE <<[c |-> c, n |-> n]>>

\* s + t
Cat(s, t) ==
    IF s = <<>> THEN t
    ELSE IF t = <<>> THEN s
    ELSE IF s[Len(s)].c = t[1].c
    THEN SubSeq(s, 1, Len(s) - 1)
         \o <<[c |-> t[1].c, n |-> s[Len(s)].n + t[1].n]>>
         \o Tail(t)
    ELSE s \o t

\* len(t)
RECURSIVE StrLen(_)
StrLen(t) == IF t = <<>> THEN 0 ELSE Head(t).n + StrLen(Tail(t))

\* str.strip(): the text without its leading and trailing whitespace
RECURSIVE LStrip(_)
LStrip(t) ==
    IF t = <<>> THEN <<>>
    ELSE IF Head(t).c \in Whitespace THEN LStrip(Tail(t)) ELSE t

RECURSIVE RStrip(_)
RStrip(t) ==
    IF t = <<>> THEN <<>>
    ELSE IF t[Len(t)].c \in Whitespace THEN RStrip(SubSeq(t, 1, Len(t) - 1)) ELSE t

Strip(t) == RStrip(LStrip(t))

\* Python truthiness of a str: non-empty
Truthy(t) == StrLen(t) > 0

\* text[:k]
RECURSIVE Prefix(_, _)
Prefix(t, k) ==
    IF t = <<>> \/ k = 0 THEN <<>>
    ELSE IF Head(t).n <= k THEN <<Head(t)>> \o Prefix(Tail(t), k - Head(t).n)
    ELSE <<[c |-> Head(t).c, n |-> k]>>

\* str.replace(old, new), old and new one character each
RECURSIVE Replace(_, _, _)
Replace(t, old, new) ==
    IF t = <<>> THEN <<>>
    ELSE Cat(Rep(IF Head(t).c = old THEN new ELSE Head(t).c, Head(t).n),
             Replace(Tail(t), old, new))

\* str.lower() of one character, over the letters file names are made of here
LowerOf(c) ==
    CASE c = "P" -> "p"
      [] c = "Q" -> "q"
      [] OTHER -> c

\* str.lower()
RECURSIVE Lower(_)
Lower(t) ==
    IF t = <<>> THEN <<>>
    ELSE Cat(Rep(LowerOf(Head(t).c), Head(t).n), Lower(Tail(t)))

\* os.path.splitext(name)[0]: the name up to its last dot (a name that does
\* not start with a dot), the whole name when it has none
SplitExtRoot(t) ==
    IF \A i \in 1..Len(t) : t[i].c # "." THEN t
    ELSE LET d == CHOOSE i \in 1..Len(t) :
                      t[i].c = "." /\ \A j \in (i + 1)..Len(t) : t[j].c # "."
         IN  SubSeq(t, 1, d - 1) \o Rep(".", t[d].n - 1)

\* list[:k]
Take(xs, k) == SubSeq(xs, 1, IF Len(xs) < k THEN Len(xs) ELSE k)

(* Formatted strings *)

Lit(s) == [k |-> "lit", lit |-> s]
Txt(t) == [k |-> "txt", txt |-> t]
Num(n) == [k |-> "num", num |-> n]

\* sep.join(parts), parts a sequence of formatted strings
RECURSIVE Join(_, _)
Join(sep, parts) ==
    IF parts = <<>> THEN <<>>
    ELSE IF Len(parts) = 1 THEN parts[1]
    ELSE parts[1] \o <<Lit(sep)>> \o Join(sep, Tail(parts))

\* Python truthiness of a formatted string: some piece renders a character
FTruthy(f) ==
    \E i \in 1..Len(f) : IF f[i].k = "txt" THEN Truthy(f[i].txt) ELSE TRUE

-----------------------------------------------------------------------------
(* Embedding port: SentenceTransformer.encode, a fixed function of the text. *)

E1 == <<1, 0, 0, 0>>
E2 == <<0, 1, 0, 0>>
EH == <<1, 1, 1, 1>>
EM == <<5, 12, 0, 0>>

Letters(t) == {t[i].c : i \in 1..Len(t)} \ Whitespace

embed_single(t) ==
    CASE Letters(t) = {"a"} -> E1
      [] Letters(t) = {"b"} -> E2
      [] Letters(t) = {"c"} -> EH
      [] OTHER -> EM

-----------------------------------------------------------------------------
(* What ingestion hands to add_chunks: Chunker.split gives every chunk the  *)
(* id f"{source_name}_chunk_{index}", its text and its metadata, and        *)
(* Embedder.embed_texts the vector of its text.                             *)

Digit == <<"0", "1", "2", "3", "4", "5", "6", "7", "8", "9">>

\* str(n), n >= 0
RECURSIVE Str(_)
Str(n) ==
    IF n < 10 THEN Rep(Digit[n + 1], 1)
    ELSE Cat(Str(n \div 10), Rep(Digit[(n % 10) + 1], 1))

\* "_chunk_"
ChunkMark ==
    <<[c |-> "_", n |-> 1], [c |-> "c", n |-> 1], [c |-> "h", n |-> 1],
      [c |-> "u", n |-> 1], [c |-> "n", n |-> 1], [c |-> "k", n |-> 1],
      [c |-> "_", n |-> 1]>>

\* f"{source_name}_chunk_{index}"
ChunkId(source, index) == Cat(Cat(source, ChunkMark), Str(index))

\* a loop that numbers every chunk with the count of the chunks
split_chunks_IdFromTotal(raw_chunks, source_name) ==
    [i \in 1..Len(raw_chunks) |->
        [id       |-> ChunkId(source_name, Len(raw_chunks)),
         text     |-> raw_chunks[i],
         metadata |-> [source       |-> source_name,
                       chunk_index  |-> i - 1,
                       total_chunks |-> Len(raw_chunks),
                       char_count   |-> StrLen(raw_chunks[i])]]]

\* split: the chunk dictionaries made of raw_chunks, enumerate counting from 0
split_chunks(raw_chunks, source_name) ==
    [i \in 1..Len(raw_chunks) |->
        [id       |-> ChunkId(source_name, i - 1),
         text     |-> raw_chunks[i],
         metadata |-> [source       |-> source_name,
                       chunk_index  |-> i - 1,
                       total_chunks |-> Len(raw_chunks),
                       char_count   |-> StrLen(raw_chunks[i])]]]

\* the check without the strip: not text
chunker_text_is_empty_NoStrip(text) == ~Truthy(text)

\* split: not text or not text.strip()
chunker_text_is_empty(text) == ~Truthy(text) \/ ~Truthy(Strip(text))

\* the texts split is given
ChunkerTexts ==
    {Rep(" ", 0), Rep(" ", 2), Cat(Rep("a", 1), Rep("b", 1)), Cat(Rep(" ", 1), Rep("a", 2))}

\* the source names split is given
ChunkerSources ==
    {Rep("p", 1), Cat(Rep("p", 1), Rep("1", 1)), Cat(Cat(Rep("p", 1), ChunkMark), Rep("1", 1))}

\* self.splitter.split_text(text): the lists of pieces the splitter may
\* return, each piece a non-empty stretch of the stripped text, at most
\* MaxChunks of them; for a text of whitespace, no piece
split_text(text) ==
    LET body   == Strip(text)
        pieces == {Prefix(body, k) : k \in 1..StrLen(body)}
    IN  IF body = <<>> THEN {<<>>}
        ELSE UNION {[1..n -> pieces] : n \in 1..MaxChunks}

Chunk(source, index, text) ==
    [id        |-> ChunkId(source, index),
     embedding |-> embed_single(text),
     document  |-> text,
     metadata  |-> [source |-> source, chunk_index |-> index]]

ChunkPool ==
    <<Chunk(Rep("p", 1), 0, Rep("b", 1)),
      Chunk(Rep("p", 1), 1, Cat(Rep("a", 1), Rep("b", 1))),
      Chunk(Rep("q", 1), 0, Rep("c", 1))>>

PoolIndex(id) == CHOOSE i \in 1..Len(ChunkPool) : ChunkPool[i].id = id

CollNames == {"research_papers", "other"}

\* the collection every ingestion of the application adds to
COLLECTION == "research_papers"

-----------------------------------------------------------------------------
(* ChromaDB behind VectorStore *)

Dot(a, b) == a[1] * b[1] + a[2] * b[2] + a[3] * b[3] + a[4] * b[4]

Norm(a) == CHOOSE n \in 0..Dot(a, a) : n * n = Dot(a, a)

\* num / den rounded to the nearest integer, a tie to the even one
RoundHalfEven(num, den) ==
    LET q == num \div den
        r == num % den
    IN  IF 2 * r < den THEN q
        ELSE IF 2 * r > den THEN q + 1
        ELSE IF q % 2 = 0 THEN q ELSE q + 1

\* the vectors the embedding port produces
Vectors == {E1, E2, EH, EM}

\* hnsw:space cosine: distance = 1 - cos(a, b), in units of 1e-6
CosineDistance ==
    [a \in Vectors, b \in Vectors |->
        1000000 - RoundHalfEven(Dot(a, b) * 1000000, Norm(a) * Norm(b))]

Distance(a, b) == CosineDistance[a, b]

\* client.get_or_create_collection(name)
get_or_create_collection(st, name) ==
    IF name \in DOMAIN st THEN st
    ELSE [n \in DOMAIN st \cup {name} |-> IF n = name THEN {} ELSE st[n]]

\* client.delete_collection(name), the name existing
drop_collection(st, name) == [n \in DOMAIN st \ {name} |-> st[n]]

\* the item farthest from the query first
NearestItem_Farthest(items, qe) ==
    CHOOSE x \in items :
        \A y \in items :
            \/ Distance(x.embedding, qe) > Distance(y.embedding, qe)
            \/ /\ Distance(x.embedding, qe) = Distance(y.embedding, qe)
               /\ PoolIndex(x.id) <= PoolIndex(y.id)

\* the item of `items` nearest to the query; engine order among equal distances
NearestItem(items, qe) ==
    CHOOSE x \in items :
        \A y \in items :
            \/ Distance(x.embedding, qe) < Distance(y.embedding, qe)
            \/ /\ Distance(x.embedding, qe) = Distance(y.embedding, qe)
               /\ PoolIndex(x.id) <= PoolIndex(y.id)

\* collection.query(query_embeddings=[qe], n_results=n): the n nearest items,
\* fewer when the collection holds fewer, by ascending distance
RECURSIVE collection_query(_, _, _)
collection_query(items, qe, n) ==
    IF n = 0 \/ items = {} THEN <<>>
    ELSE LET x == NearestItem(items, qe)
         IN  <<x>> \o collection_query(items \ {x}, qe, n - 1)

-----------------------------------------------------------------------------
(* VectorStore *)

\* creating the collection anew, whether it exists or not
create_collection_store_Anew(st, name) ==
    [n \in DOMAIN st \cup {name} |-> IF n = name THEN {} ELSE st[n]]

\* create_collection: the client state it leaves
create_collection_store(st, name) == get_or_create_collection(st, name)

\* search: round(1 - distance, 4), in units of 1e-4
Similarity(distance) == RoundHalfEven(1000000 - distance, 100)

\* search: the reformatted result list
search_chunks(st, name, qe, n) ==
    LET collection == create_collection_store(st, name)[name]
        results    == collection_query(collection, qe, n)
    IN  [i \in 1..Len(results) |->
            [text       |-> results[i].document,
             metadata   |-> results[i].metadata,
             distance   |-> Distance(results[i].embedding, qe),
             similarity |-> Similarity(Distance(results[i].embedding, qe))]]

\* search: the client state it leaves
search_store(st, name) == create_collection_store(st, name)

\* get_collection_count
get_collection_count(st, name) ==
    IF name \in DOMAIN st THEN Cardinality(st[name]) ELSE 0

\* collection_exists
collection_exists(st, name) ==
    IF name \in DOMAIN st THEN Cardinality(st[name]) > 0 ELSE FALSE

-----------------------------------------------------------------------------
(* Retriever *)

\* the check without the strip: not query
QueryIsEmpty_NoStrip(query) == ~Truthy(query)

\* retrieve: not query or not query.strip()
QueryIsEmpty(query) == ~Truthy(query) \/ ~Truthy(Strip(query))

\* retrieve: the chunks it returns for a non-empty query, the embedding made
retrieve(st, name, n, query) == search_chunks(st, name, embed_single(query), n)

RECURSIVE SumSimilarity(_)
SumSimilarity(chunks) ==
    IF chunks = <<>> THEN 0
    ELSE Head(chunks).similarity + SumSimilarity(Tail(chunks))

\* round(x, 4) of the float quotient num / den: the nearest multiple of 1e-4;
\* when the real quotient lies midway the float's error decides the side
RoundQuotient(num, den) ==
    IF 2 * (num % den) = den THEN {num \div den, num \div den + 1}
    ELSE {RoundHalfEven(num, den)}

\* the sum of the similarities, not divided
average_similarity_Sum(chunks) == {SumSimilarity(chunks)}

\* retrieve_with_scores: the averages it may return with `chunks`
average_similarity(chunks) ==
    IF chunks = <<>> THEN {0}
    ELSE RoundQuotient(SumSimilarity(chunks), Len(chunks))

\* the blocks joined whatever their number, without the check for none
format_context_NoSentinel(chunks) ==
    Join("\n\n---\n\n",
         [i \in 1..Len(chunks) |->
             <<Lit("[CONTEXT "), Num(i), Lit(" | Source: "),
               Txt(chunks[i].metadata.source), Lit(" | Relevance: "),
               Num(chunks[i].similarity), Lit("]\n"), Txt(chunks[i].text)>>])

\* retrieve_as_context: the formatted context
format_context(chunks) ==
    IF chunks = <<>> THEN <<Lit("No relevant context found.")>>
    ELSE Join("\n\n---\n\n",
              [i \in 1..Len(chunks) |->
                  <<Lit("[CONTEXT "), Num(i), Lit(" | Source: "),
                    Txt(chunks[i].metadata.source), Lit(" | Relevance: "),
                    Num(chunks[i].similarity), Lit("]\n"), Txt(chunks[i].text)>>])

-----------------------------------------------------------------------------
(* Translator: the messages it builds *)

QA_SYSTEM == <<Lit("You are an expert research paper assistant. ...")>>

qa_human(context, question) ==
    <<Lit("Here is the relevant context from the research paper:\n\n")>>
    \o context
    \o <<Lit("\n\nBased on the context above, please answer this question:\n"),
         Txt(question)>>

tr_system(target_language) ==
    <<Lit("You are an expert scientific translator specializing in translating research papers into "),
      Lit(target_language),
      Lit(". Rules: - Translate accurately and naturally into "),
      Lit(target_language),
      Lit(" ...")>>

\* translate: the reference context made of the retrieved chunks
tr_context(chunks) ==
    IF chunks = <<>> THEN <<>>
    ELSE Join("\n\n",
              [i \in 1..Len(Take(chunks, TopRefs)) |->
                  <<Lit("[Reference "), Num(i), Lit("]: "), Txt(chunks[i].text)>>])

\* the reference section whatever the context
tr_human_AlwaysReference(context, target_language, text) ==
    <<Lit("Use this reference context for correct technical terminology:\n\n")>>
    \o context
    \o <<Lit("\n\nNow translate the following text into "), Lit(target_language),
         Lit(":\n\n"), Txt(text), Lit("\n\nProvide ONLY the translation, nothing else.")>>

\* translate: human_content
tr_human(context, target_language, text) ==
    IF FTruthy(context)
    THEN <<Lit("Use this reference context for correct technical terminology:\n\n")>>
         \o context
         \o <<Lit("\n\nNow translate the following text into "), Lit(target_language),
              Lit(":\n\n"), Txt(text), Lit("\n\nProvide ONLY the translation, nothing else.")>>
    ELSE <<Lit("Translate the following research paper text into "), Lit(target_language),
           Lit(":\n\n"), Txt(text), Lit("\n\nProvide ONLY the translation, nothing else.")>>

SIMPLIFY_SYSTEM == <<Lit("You are an expert at explaining complex research concepts ...")>>

simplify_human(text) ==
    <<Lit("Simplify this research paper text \ninto plain English:\n\n"), Txt(text)>>

Messages(system, human) ==
    <<[role |-> "system", content |-> system], [role |-> "human", content |-> human]>>

NO_INFO_ANSWER ==
    "I couldn't find relevant information in the paper to answer this question."

IsSupported(target_language) ==
    \E i \in 1..Len(SUPPORTED_LANGUAGES) : SUPPORTED_LANGUAGES[i] = target_language

-----------------------------------------------------------------------------
(* Inputs *)

Texts ==
    {Rep("a", 0), Rep(" ", 1), Rep("a", 1),
     Cat(Rep("a", PrefixLen), Rep("b", 1)),
     Cat(Rep(" ", PrefixLen), Rep("a", 1))}

Languages == {"French", "Klingon"}

Thresholds == {0, DefaultThreshold}

\* response.content of the generation port
LLMOutputs == {"out1", "out2"}

\* the batches of ids one add_chunks call may carry, as indices of ChunkPool
Batches ==
    UNION {[1..k -> 1..Len(ChunkPool)] : k \in 1..MaxBatch}

\* four lists of the same length
SameLengths(k) == <<k, k, k, k>>

\* the lengths of ids, embeddings, texts and metadatas one add_chunks call may
\* carry with k ids: all equal, the texts an element short, or the ids
Shapes(k) == {SameLengths(k), <<k, k, k - 1, k>>, <<k, k + 1, k + 1, k + 1>>}

-----------------------------------------------------------------------------
(* Results *)

NoResult == [status |-> "none", err |-> "", val |-> <<>>]

Returned(v) == [status |-> "ok", err |-> "", val |-> v]

Raised(e) == [status |-> "raised", err |-> e, val |-> <<>>]

\* the ValueErrors of the code and the failures of the ports, in the error
\* taxonomy of the specification
ErrorKind(e) ==
    CASE e = "Question cannot be empty" -> "InvalidInput"
      [] e = "Text to translate cannot be empty" -> "InvalidInput"
      [] e = "Query cannot be empty" -> "InvalidInput"
      [] e = "Text is empty - nothing to chunk" -> "InvalidInput"
      [] e = "Language not supported" -> "UnsupportedLanguage"
      [] e = "number of embeddings, documents or metadatas must match number of ids"
            -> "ShapeMismatch"
      [] e = "embedding port failed" -> "UpstreamFailure"
      [] e = "generation port failed" -> "UpstreamFailure"
      [] OTHER -> "Unknown"

NoRequest ==
    [op |-> "none", text |-> <<>>, lang |-> "", use_context |-> FALSE, threshold |-> 0,
     name |-> "", batch |-> <<>>, lengths |-> <<>>, source_name |-> <<>>]

Request(op, text) == [NoRequest EXCEPT !.op = op, !.text = text]

NoLocals == [chunks |-> <<>>, avg_relevance |-> 0, messages |-> <<>>, raw_chunks |-> <<>>]

\* no pipeline_<model> key in st.session_state
NoPipelines == [m \in {} |-> <<>>]

\* a session that just started: app.py sets processed_papers and chat_history
\* to [], and no page has put anything else into st.session_state yet.
\* vector_store, embedder: whether the key is there; arxiv_client: "none", or
\* whether the ArxivClient under the key was made with an embedder;
\* search_results, recommendations: whether the key holds a list of papers;
\* papers_text: the names it has a text for; pipelines: the pipeline_<model>
\* keys, by model
NewSession ==
    [processed_papers |-> <<>>, chat_history |-> <<>>, vector_store |-> FALSE,
     embedder |-> FALSE, arxiv_client |-> "none", search_results |-> FALSE,
     recommendations |-> FALSE, papers_text |-> {}, pipelines |-> NoPipelines]

\* the two script threads that may be inside get_pipeline
Callers == {1, 2}

\* a caller that is not inside get_pipeline and got nothing from it yet
NoCaller == [pc |-> "idle", page |-> "", settings |-> <<>>, returned |-> <<>>]

Init ==
    /\ store = [n \in {} |-> {}]
    /\ collection_name = "research_papers"
    /\ n_results \in 1..MaxN
    /\ pc = "idle"
    /\ req = NoRequest
    /\ loc = NoLocals
    /\ embedLog = <<>>
    /\ searchLog = <<>>
    /\ llmLog = <<>>
    /\ result = NoResult
    /\ self_chunks = <<>>
    /\ session_state = NewSession
    /\ callers = [c \in Callers |-> NoCaller]

-----------------------------------------------------------------------------
(* VectorStore, called directly *)

\* a call that is handled in one step: what it leaves of the call's record
Call(r, res) ==
    /\ pc = "idle"
    /\ pc' = "idle"
    /\ req' = r
    /\ result' = res
    /\ loc' = NoLocals
    /\ embedLog' = <<>>
    /\ searchLog' = <<>>
    /\ llmLog' = <<>>

\* the collection object a call returns
Handle(name) == [collection |-> name]

create_collection(name) ==
    /\ Call([NoRequest EXCEPT !.op = "create_collection", !.name = name],
            Returned(Handle(name)))
    /\ store' = create_collection_store(store, name)
    /\ UNCHANGED <<callers, self_chunks, session_state, collection_name, n_results>>

\* collection.add(ids, ...): the contents it may leave, and whether it raised.
\* Ids repeated inside the batch are refused; an id the collection already
\* holds is refused or skipped, as the engine sees fit.
collection_add(items, batch) ==
    LET new == {ChunkPool[batch[i]] : i \in 1..Len(batch)}
        ids == {x.id : x \in items}
    IN  IF Cardinality(new) < Len(batch)
        THEN {[items |-> items, raised |-> TRUE]}
        ELSE IF \E x \in new : x.id \in ids
        THEN {[items |-> items, raised |-> TRUE],
              [items |-> items \cup {x \in new : x.id \notin ids}, raised |-> FALSE]}
        ELSE {[items |-> items \cup new, raised |-> FALSE]}

\* a validation that compares the embeddings with the ids only
LengthsMatch_EmbeddingsOnly(lengths) == lengths[2] = lengths[1]

\* collection.add: embeddings, documents and metadatas must each be as long
\* as ids
LengthsMatch(lengths) == \A i \in 2..4 : lengths[i] = lengths[1]

\* add_chunks: the client state it may leave and what it returns or raises
add_chunks_outcomes(st, name, batch, lengths) ==
    LET created == create_collection_store(st, name)
    IN  IF ~LengthsMatch(lengths)
        THEN {[store  |-> created,
               result |-> Raised("number of embeddings, documents or metadatas must match number of ids")]}
        ELSE {[store  |-> [created EXCEPT ![name] = out.items],
               result |-> IF out.raised THEN Raised("ids already stored")
                          ELSE Returned(Handle(name))] :
                 out \in collection_add(created[name], batch)}

add_chunks(name, batch, lengths) ==
    \E out \in add_chunks_outcomes(store, name, batch, lengths) :
        /\ Call([NoRequest EXCEPT !.op = "add_chunks", !.name = name, !.batch = batch,
                                  !.lengths = lengths],
                out.result)
        /\ store' = out.store
        /\ UNCHANGED <<callers, self_chunks, session_state, collection_name, n_results>>

\* a delete without the try: the client's refusal of a missing name gets out
delete_collection_result_NoTry(st, name) ==
    IF name \in DOMAIN st THEN Returned(<<>>) ELSE Raised("collection does not exist")

\* delete_collection: what it returns; the except swallows the client's refusal
delete_collection_result(st, name) == Returned(<<>>)

delete_collection(name) ==
    /\ Call([NoRequest EXCEPT !.op = "delete_collection", !.name = name],
            delete_collection_result(store, name))
    /\ store' = IF name \in DOMAIN store THEN drop_collection(store, name) ELSE store
    /\ UNCHANGED <<callers, self_chunks, session_state, collection_name, n_results>>

\* get_collection_count, called
GetCollectionCount(name) ==
    /\ Call([NoRequest EXCEPT !.op = "get_collection_count", !.name = name],
            Returned(get_collection_count(store, name)))
    /\ UNCHANGED <<callers, self_chunks, session_state, store, collection_name, n_results>>

\* collection_exists, called
CollectionExists(name) ==
    /\ Call([NoRequest EXCEPT !.op = "collection_exists", !.name = name],
            Returned(collection_exists(store, name)))
    /\ UNCHANGED <<callers, self_chunks, session_state, store, collection_name, n_results>>

\* a search that gets its collection without creating it: a name that does
\* not exist raises
search_result_GetCollection(st, name, qe, n) ==
    IF name \in DOMAIN st THEN Returned(search_chunks(st, name, qe, n))
    ELSE Raised("collection does not exist")

\* search: what it returns
search_result(st, name, qe, n) == Returned(search_chunks(st, name, qe, n))

search(name, qe, n) ==
    /\ pc = "idle"
    /\ req' = [NoRequest EXCEPT !.op = "search", !.name = name]
    /\ searchLog' = <<[name |-> name, query_embedding |-> qe, n_results |-> n]>>
    /\ result' = search_result(store, name, qe, n)
    /\ store' = search_store(store, name)
    /\ loc' = NoLocals
    /\ embedLog' = <<>>
    /\ llmLog' = <<>>
    /\ UNCHANGED <<callers, self_chunks, session_state, collection_name, n_results, pc>>

-----
(* Retriever *)

set_n_results(n) ==
    /\ Call([NoRequest EXCEPT !.op = "set_n_results"], Returned(<<>>))
    /\ n_results' = n
    /\ UNCHANGED <<callers, self_chunks, session_state, store, collection_name>>

set_collection(name) ==
    /\ Call([NoRequest EXCEPT !.op = "set_collection", !.name = name], Returned(<<>>))
    /\ collection_name' = name
    /\ UNCHANGED <<callers, self_chunks, session_state, store, n_results>>

\* retrieve(query), the embedding port answering (ok) or failing: how it ends
RetrieveEnd(query, ok) ==
    IF QueryIsEmpty(query) THEN "Query cannot be empty"
    ELSE IF ~ok THEN "embedding port failed"
    ELSE "ok"

\* retrieve(query): the calls it makes and what they leave; `logs` is the
\* port logs as the request found them
RetrieveCalls(query, ok, logs) ==
    /\ embedLog' = IF QueryIsEmpty(query) THEN logs[1] ELSE Append(logs[1], query)
    /\ IF RetrieveEnd(query, ok) = "ok"
       THEN /\ searchLog' = Append(logs[2], [name |-> collection_name,
                                             query_embedding |-> embed_single(query),
                                             n_results |-> n_results])
            /\ store' = search_store(store, collection_name)
       ELSE /\ searchLog' = logs[2]
            /\ store' = store

\* a Retriever method called on its own: one request, handled in one step
RetrieverCall(r, ok, value) ==
    /\ pc = "idle"
    /\ req' = r
    /\ RetrieveCalls(r.text, ok, <<<<>>, <<>>>>)
    /\ llmLog' = <<>>
    /\ loc' = NoLocals
    /\ result' = IF RetrieveEnd(r.text, ok) = "ok" THEN Returned(value)
                 ELSE Raised(RetrieveEnd(r.text, ok))
    /\ UNCHANGED <<callers, self_chunks, session_state, collection_name, n_results, pc>>

retrieve_op(query, ok) ==
    RetrieverCall(Request("retrieve", query), ok,
                  retrieve(store, collection_name, n_results, query))

retrieve_as_context(query, ok) ==
    RetrieverCall(Request("retrieve_as_context", query), ok,
                  format_context(retrieve(store, collection_name, n_results, query)))

retrieve_with_scores(query, ok) ==
    LET chunks == retrieve(store, collection_name, n_results, query)
    IN  \E avg \in average_similarity(chunks) :
            RetrieverCall(Request("retrieve_with_scores", query), ok, <<chunks, avg>>)

is_relevant(query, threshold, ok) ==
    LET chunks == retrieve(store, collection_name, n_results, query)
    IN  \E avg \in average_similarity(chunks) :
            RetrieverCall([Request("is_relevant", query) EXCEPT !.threshold = threshold],
                          ok, avg >= threshold)

-----------------------------------------------------------------------------
(* Translator.answer_question *)

\* the check without the strip: not question
question_is_empty_NoStrip(question) == ~Truthy(question)

\* answer_question: not question.strip()
question_is_empty(question) == ~Truthy(Strip(question))

\* START: the call and its check of the question
answer_question(question) ==
    /\ pc = "idle"
    /\ req' = Request("answer", question)
    /\ loc' = NoLocals
    /\ embedLog' = <<>>
    /\ searchLog' = <<>>
    /\ llmLog' = <<>>
    /\ IF question_is_empty(question)
       THEN /\ result' = Raised("Question cannot be empty")
            /\ pc' = "idle"
       ELSE /\ result' = NoResult
            /\ pc' = "RETRIEVE"
    /\ UNCHANGED <<callers, self_chunks, session_state, store, collection_name, n_results>>

\* RETRIEVE: chunks, avg_relevance = self.retriever.retrieve_with_scores(question)
AnswerRetrieve(ok) ==
    /\ pc = "RETRIEVE"
    /\ RetrieveCalls(req.text, ok, <<embedLog, searchLog>>)
    /\ IF RetrieveEnd(req.text, ok) = "ok"
       THEN LET chunks == retrieve(store, collection_name, n_results, req.text)
            IN  \E avg \in average_similarity(chunks) :
                    /\ loc' = [loc EXCEPT !.chunks = chunks, !.avg_relevance = avg]
                    /\ result' = result
                    /\ pc' = "GATE"
       ELSE /\ loc' = loc
            /\ result' = Raised(RetrieveEnd(req.text, ok))
            /\ pc' = "idle"
    /\ UNCHANGED <<callers, self_chunks, session_state, collection_name, n_results, req, llmLog>>

\* a gate that rejects only a result with no similarity at all
BelowGate_OnlyZero(avg_relevance) == avg_relevance <= 0

\* a gate that rejects an average of exactly 0.25 too
BelowGate_Inclusive(avg_relevance) == avg_relevance <= LowRelevance

\* a gate at the retriever's advisory threshold
BelowGate_AtThreshold(avg_relevance) == avg_relevance < DefaultThreshold

\* the gate: avg_relevance < 0.25
BelowGate(avg_relevance) == avg_relevance < LowRelevance

\* GATE: reject, or go on to build the prompt
AnswerGate ==
    /\ pc = "GATE"
    /\ IF BelowGate(loc.avg_relevance)
       THEN /\ result' = Returned([answer |-> NO_INFO_ANSWER,
                                   context_used |-> <<>>,
                                   avg_relevance |-> loc.avg_relevance])
            /\ pc' = "idle"
       ELSE /\ result' = result
            /\ pc' = "BUILD_PROMPT"
    /\ UNCHANGED <<callers, self_chunks, session_state, store, collection_name, n_results, req, loc,
                   embedLog, searchLog, llmLog>>

\* BUILD_PROMPT: context = self.retriever.retrieve_as_context(question), and
\* the two messages
AnswerBuildPrompt(ok) ==
    /\ pc = "BUILD_PROMPT"
    /\ RetrieveCalls(req.text, ok, <<embedLog, searchLog>>)
    /\ IF RetrieveEnd(req.text, ok) = "ok"
       THEN LET context ==
                    format_context(retrieve(store, collection_name, n_results, req.text))
            IN  /\ loc' = [loc EXCEPT
                              !.messages = Messages(QA_SYSTEM, qa_human(context, req.text))]
                /\ result' = result
                /\ pc' = "GENERATE"
       ELSE /\ loc' = loc
            /\ result' = Raised(RetrieveEnd(req.text, ok))
            /\ pc' = "idle"
    /\ UNCHANGED <<callers, self_chunks, session_state, collection_name, n_results, req, llmLog>>

\* response = self.llm.invoke(messages), and the return: the port answers
\* `out`, or fails (ok false)
Invoke(ok, out, value) ==
    /\ llmLog' = Append(llmLog, [messages |-> loc.messages,
                                 response |-> IF ok THEN out ELSE "failed"])
    /\ result' = IF ok THEN Returned(value) ELSE Raised("generation port failed")
    /\ pc' = "idle"
    /\ UNCHANGED <<callers, self_chunks, session_state, store, collection_name, n_results, req, loc,
                   embedLog, searchLog>>

\* GENERATE and RETURN
AnswerGenerate(ok, out) ==
    /\ pc = "GENERATE"
    /\ Invoke(ok, out,
              [answer |-> out,
               context_used |-> loc.chunks,
               avg_relevance |-> loc.avg_relevance])

-----------------------------------------------------------------------------
(* Translator.translate *)

\* retrieving with the whole text
translate_query_Whole(text) == text

\* translate: the query it retrieves with
translate_query(text) == Prefix(text, PrefixLen)

\* the check without the strip: not text
text_is_empty_NoStrip(text) == ~Truthy(text)

\* translate: not text.strip()
text_is_empty(text) == ~Truthy(Strip(text))

\* the call, its checks and, without use_context, the messages
translate(text, target_language, use_context) ==
    /\ pc = "idle"
    /\ req' = [Request("translate", text) EXCEPT
                  !.lang = target_language, !.use_context = use_context]
    /\ embedLog' = <<>>
    /\ searchLog' = <<>>
    /\ llmLog' = <<>>
    /\ IF text_is_empty(text)
       THEN /\ result' = Raised("Text to translate cannot be empty")
            /\ loc' = NoLocals
            /\ pc' = "idle"
       ELSE IF ~IsSupported(target_language)
       THEN /\ result' = Raised("Language not supported")
            /\ loc' = NoLocals
            /\ pc' = "idle"
       ELSE IF use_context
       THEN /\ result' = NoResult
            /\ loc' = NoLocals
            /\ pc' = "T_RETRIEVE"
       ELSE /\ result' = NoResult
            /\ loc' = [NoLocals EXCEPT
                          !.messages = Messages(tr_system(target_language),
                                                tr_human(<<>>, target_language, text))]
            /\ pc' = "T_GENERATE"
    /\ UNCHANGED <<callers, self_chunks, session_state, store, collection_name, n_results>>

\* chunks, _ = self.retriever.retrieve_with_scores(text[:200]), and the messages
TranslateRetrieve(ok) ==
    /\ pc = "T_RETRIEVE"
    /\ RetrieveCalls(translate_query(req.text), ok, <<embedLog, searchLog>>)
    /\ IF RetrieveEnd(translate_query(req.text), ok) = "ok"
       THEN LET chunks == retrieve(store, collection_name, n_results,
                                   translate_query(req.text))
            IN  /\ loc' = [loc EXCEPT
                              !.chunks = chunks,
                              !.messages = Messages(tr_system(req.lang),
                                                    tr_human(tr_context(chunks),
                                                             req.lang, req.text))]
                /\ result' = result
                /\ pc' = "T_GENERATE"
       ELSE /\ loc' = loc
            /\ result' = Raised(RetrieveEnd(translate_query(req.text), ok))
            /\ pc' = "idle"
    /\ UNCHANGED <<callers, self_chunks, session_state, collection_name, n_results, req, llmLog>>

\* translate: the chunks it returns as context_used
translate_context_used(chunks) == chunks

TranslateGenerate(ok, out) ==
    /\ pc = "T_GENERATE"
    /\ Invoke(ok, out,
              [translation |-> out,
               target_language |-> req.lang,
               context_used |-> translate_context_used(loc.chunks)])

-----------------------------------------------------------------------------
(* Translator.simplify *)

simplify(text) ==
    /\ pc = "idle"
    /\ req' = Request("simplify", text)
    /\ embedLog' = <<>>
    /\ searchLog' = <<>>
    /\ llmLog' = <<>>
    /\ result' = NoResult
    /\ loc' = [NoLocals EXCEPT !.messages = Messages(SIMPLIFY_SYSTEM, simplify_human(text))]
    /\ pc' = "S_GENERATE"
    /\ UNCHANGED <<callers, self_chunks, session_state, store, collection_name, n_results>>

\* returning the text stripped
simplify_original_Stripped(text) == Strip(text)

\* simplify: the text it returns as original
simplify_original(text) == text

SimplifyGenerate(ok, out) ==
    /\ pc = "S_GENERATE"
    /\ Invoke(ok, out, [simplified |-> out, original |-> simplify_original(req.text)])

-----------------------------------------------------------------------------
(* Chunker *)

\* split(text, source_name), the splitter returning raw_chunks
split(text, source_name, raw_chunks) ==
    /\ pc = "idle"
    /\ req' = [Request("split", text) EXCEPT !.source_name = source_name]
    /\ embedLog' = <<>>
    /\ searchLog' = <<>>
    /\ llmLog' = <<>>
    /\ IF chunker_text_is_empty(text)
       THEN /\ result' = Raised("Text is empty - nothing to chunk")
            /\ loc' = NoLocals
            /\ self_chunks' = self_chunks
       ELSE /\ result' = Returned(<<>>)
            /\ loc' = [NoLocals EXCEPT !.raw_chunks = raw_chunks]
            /\ self_chunks' = split_chunks(raw_chunks, source_name)
    /\ UNCHANGED <<callers, session_state, store, collection_name, n_results, pc>>

\* a getter of the Chunker, returning value
ChunkerGet(op, value) ==
    /\ Call(Request(op, <<>>), Returned(value))
    /\ UNCHANGED <<callers, self_chunks, session_state, store, collection_name, n_results>>

get_chunks == ChunkerGet("get_chunks", self_chunks)

get_chunk_count == ChunkerGet("get_chunk_count", Len(self_chunks))

get_texts_only ==
    ChunkerGet("get_texts_only", [i \in 1..Len(self_chunks) |-> self_chunks[i].text])

get_metadatas_only ==
    ChunkerGet("get_metadatas_only", [i \in 1..Len(self_chunks) |-> self_chunks[i].metadata])

get_ids_only ==
    ChunkerGet("get_ids_only", [i \in 1..Len(self_chunks) |-> self_chunks[i].id])

ChunkerNext ==
    \/ \E text \in ChunkerTexts, source_name \in ChunkerSources :
          \E raw_chunks \in split_text(text) : split(text, source_name, raw_chunks)
    \/ get_chunks
    \/ get_chunk_count
    \/ get_texts_only
    \/ get_metadatas_only
    \/ get_ids_only

\* one Chunker, split again and again and read
ChunkerSpec == Init /\ [][ChunkerNext]_vars

-----------------------------------------------------------------------------
(* The Upload page: Process Paper, Import and Process, Clear All Papers *)

\* ".pdf"
DotPdf ==
    <<[c |-> ".", n |-> 1], [c |-> "p", n |-> 1], [c |-> "d", n |-> 1],
      [c |-> "f", n |-> 1]>>

\* the files the user may upload: the name of the file and how many chunks
\* its text splits into
UploadedFiles ==
    {[name |-> Cat(Rep("p", 1), DotPdf), chunk_count |-> 2],
     [name |-> Cat(Rep("P", 1), DotPdf), chunk_count |-> 1]}

\* the papers arXiv search may list: the arxiv_id and how many chunks the
\* paper's text splits into
ArxivPapers == {[arxiv_id |-> Rep("q", 1), chunk_count |-> 1]}

\* _process_pdf: source_name of an uploaded file
upload_source_name(name) == Lower(Replace(SplitExtRoot(name), " ", "_"))

\* _import_paper: paper_filename
paper_filename(arxiv_id) == Cat(Replace(arxiv_id, "/", "_"), DotPdf)

\* _import_paper: source_name
import_source_name(arxiv_id) == Replace(Replace(arxiv_id, "/", "_"), ".", "_")

\* chunker.get_ids_only() after chunker.split(clean_text, source_name), as
\* indices of ChunkPool
ids_of_split(source_name, chunk_count) ==
    [i \in 1..chunk_count |-> PoolIndex(ChunkId(source_name, i - 1))]

\* name in st.session_state.get("processed_papers", [])
IsProcessed(name) ==
    \E i \in 1..Len(session_state.processed_papers) :
        session_state.processed_papers[i] = name

\* get_arxiv_client: the session state it leaves; an ArxivClient made while
\* the session has no embedder is made with embedder=None, and stays
get_arxiv_client(ss) ==
    IF ss.arxiv_client # "none" THEN ss
    ELSE [ss EXCEPT !.arxiv_client =
                        IF ss.embedder THEN "with_embedder" ELSE "no_embedder"]

\* chunk, embed, store and record a paper under `name`, from the session
\* state ss: what _process_pdf and _import_paper do once the "already
\* processed" check let them through; an exception of add_chunks is caught
\* and the paper is not recorded
Ingest(op, name, batch, ss) ==
    \E out \in add_chunks_outcomes(store, COLLECTION, batch, SameLengths(Len(batch))) :
        /\ Call([NoRequest EXCEPT !.op = op, !.text = name, !.name = COLLECTION,
                                  !.batch = batch],
                IF out.result.status = "ok" THEN Returned("processed")
                ELSE Returned("failed"))
        /\ store' = out.store
        /\ session_state' =
              IF out.result.status = "ok"
              THEN [ss EXCEPT !.embedder = TRUE,
                              !.vector_store = TRUE,
                              !.processed_papers = IF IsProcessed(name) THEN @
                                                   ELSE Append(@, name),
                              !.papers_text = @ \cup {name}]
              ELSE [ss EXCEPT !.embedder = TRUE, !.vector_store = TRUE]

\* a press of the button that leads to a warning and nothing else
AlreadyProcessed(op, name) ==
    /\ Call([NoRequest EXCEPT !.op = op, !.text = name], Returned("already processed"))
    /\ UNCHANGED <<store, session_state>>

\* render_upload_page: "Process Paper" pressed with `file` uploaded
ProcessPaper(file) ==
    /\ IF IsProcessed(file.name)
       THEN AlreadyProcessed("process_paper", file.name)
       ELSE Ingest("process_paper", file.name,
                   ids_of_split(upload_source_name(file.name), file.chunk_count),
                   session_state)
    /\ UNCHANGED <<callers, self_chunks, collection_name, n_results>>

\* render_search_section: "Search" pressed with a query; arXiv fails, lists
\* no paper or lists papers
SearchArxiv(outcome) ==
    /\ Call([NoRequest EXCEPT !.op = "search_arxiv"], Returned(outcome))
    /\ session_state' =
          [get_arxiv_client(session_state) EXCEPT
              !.search_results = IF outcome = "failed" THEN @ ELSE outcome = "found"]
    /\ UNCHANGED <<callers, self_chunks, store, collection_name, n_results>>

\* render_paper_card: "Import and Process" pressed on `paper`, listed by a
\* search or among the recommendations
ImportPaper(paper) ==
    /\ session_state.search_results \/ session_state.recommendations
    /\ IF IsProcessed(paper_filename(paper.arxiv_id))
       THEN AlreadyProcessed("import_paper", paper_filename(paper.arxiv_id))
       ELSE Ingest("import_paper", paper_filename(paper.arxiv_id),
                   ids_of_split(import_source_name(paper.arxiv_id), paper.chunk_count),
                   get_arxiv_client(session_state))
    /\ UNCHANGED <<callers, self_chunks, collection_name, n_results>>

\* ArxivClient.get_recommendations, arXiv answering with papers (ok) or
\* failing: what the page shows
get_recommendations_result(arxiv_client, ok) ==
    IF arxiv_client = "no_embedder"
    THEN "Recommendation failed: Embedder required for recommendations"
    ELSE IF ~ok THEN "Recommendation failed: arXiv"
    ELSE "recommendations"

\* render_recommendations_section: "Find Similar Papers" pressed with the
\* i-th processed paper selected
FindSimilarPapers(i, ok) ==
    /\ LET selected_paper == session_state.processed_papers[i]
           ss == get_arxiv_client(session_state)
           shown == get_recommendations_result(ss.arxiv_client, ok)
       IN  IF selected_paper \notin session_state.papers_text
           THEN /\ Call([NoRequest EXCEPT !.op = "find_similar", !.text = selected_paper],
                        Returned("Paper text not available for recommendations"))
                /\ session_state' = session_state
           ELSE /\ Call([NoRequest EXCEPT !.op = "find_similar", !.text = selected_paper],
                        Returned(shown))
                /\ session_state' =
                      [ss EXCEPT !.recommendations =
                                     IF shown = "recommendations" THEN TRUE ELSE @]
    /\ UNCHANGED <<callers, self_chunks, store, collection_name, n_results>>

\* render_upload_page: "Clear All Papers" pressed
ClearAllPapers ==
    /\ Call([NoRequest EXCEPT !.op = "clear_all_papers"], Returned("cleared"))
    /\ store' = IF session_state.vector_store /\ COLLECTION \in DOMAIN store
                THEN drop_collection(store, COLLECTION) ELSE store
    /\ session_state' = [session_state EXCEPT !.processed_papers = <<>>,
                                              !.chat_history = <<>>,
                                              !.papers_text = {},
                                              !.pipelines = NoPipelines]
    /\ UNCHANGED <<callers, self_chunks, collection_name, n_results>>

\* a new browser session, or the process started again: st.session_state is
\* new, the PersistentClient's collections are those left on disk
StartSession ==
    /\ Call([NoRequest EXCEPT !.op = "start_session"], Returned(<<>>))
    /\ session_state' = NewSession
    /\ callers' = [c \in Callers |-> NoCaller]
    /\ UNCHANGED <<self_chunks, store, collection_name, n_results>>

UploadNext ==
    \/ \E file \in UploadedFiles : ProcessPaper(file)
    \/ \E outcome \in {"failed", "empty", "found"} : SearchArxiv(outcome)
    \/ \E paper \in ArxivPapers : ImportPaper(paper)
    \/ \E i \in DOMAIN session_state.processed_papers, ok \in BOOLEAN :
          FindSimilarPapers(i, ok)
    \/ ClearAllPapers
    \/ StartSession

\* the Upload and Discover pages, used over sessions
UploadSpec == Init /\ [][UploadNext]_vars

-----------------------------------------------------------------------------
(* get_pipeline of the Chat and Translate pages *)

\* render_sidebar: models the selectbox offers
Models == {"qwen2.5:7b", "llama3.1:8b"}

\* render_sidebar: positions of the "Chunks to retrieve" slider
SliderValues == {SliderMin, SliderDefault}

\* what render_sidebar returns, as far as get_pipeline reads it
Settings == [model : Models, n_results : SliderValues]

Pages == {"chat", "translate"}

\* get_pipeline, the key missing: the session state it leaves. The pipeline
\* is the Retriever and the Translator it makes; serial tells the instances
\* made for one model apart: the first since the key was last missing for
\* good, the second, ...
load_pipeline(ss, settings) ==
    LET made == IF settings.model \in DOMAIN ss.pipelines
                THEN ss.pipelines[settings.model].serial ELSE 0
        pipeline == [retriever  |-> [collection_name |-> COLLECTION,
                                     n_results |-> settings.n_results],
                     translator |-> [model_name |-> settings.model],
                     serial     |-> made + 1]
    IN  [ss EXCEPT !.embedder = TRUE,
                   !.vector_store = TRUE,
                   !.pipelines = [m \in DOMAIN @ \cup {settings.model} |->
                                     IF m = settings.model THEN pipeline ELSE @[m]]]

\* get_pipeline called and run to its end by one caller: the session state
\* it leaves
get_pipeline(ss, settings) ==
    IF settings.model \in DOMAIN ss.pipelines THEN ss ELSE load_pipeline(ss, settings)

\* caller c calls get_pipeline(settings) from `page` and tests
\* pipeline_key not in st.session_state; with the key there it returns
GetPipeline(c, page, settings) ==
    /\ callers[c].pc = "idle"
    /\ callers' =
          [callers EXCEPT ![c] =
              IF settings.model \in DOMAIN session_state.pipelines
              THEN [pc |-> "idle", page |-> page, settings |-> settings,
                    returned |-> session_state.pipelines[settings.model]]
              ELSE [pc |-> "load", page |-> page, settings |-> settings,
                    returned |-> <<>>]]
    /\ UNCHANGED <<store, collection_name, n_results, pc, req, loc, embedLog, searchLog,
                   llmLog, result, self_chunks, session_state>>

\* caller c, having found the key missing, makes what is missing, puts the
\* pipeline under the key and returns st.session_state[pipeline_key]
GetPipelineLoad(c) ==
    /\ callers[c].pc = "load"
    /\ session_state' = load_pipeline(session_state, callers[c].settings)
    /\ callers' = [callers EXCEPT
                      ![c].pc = "idle",
                      ![c].returned = session_state'.pipelines[callers[c].settings.model]]
    /\ UNCHANGED <<store, collection_name, n_results, pc, req, loc, embedLog, searchLog,
                   llmLog, result, self_chunks>>

PipelineNext ==
    \/ \E c \in Callers, page \in Pages, settings \in Settings :
          GetPipeline(c, page, settings)
    \/ \E c \in Callers : GetPipelineLoad(c)
    \/ ClearAllPapers
    \/ StartSession

\* the pipelines of a session, its pages calling get_pipeline
PipelineSpec == Init /\ [][PipelineNext]_vars

-----------------------------------------------------------------------------
(* The Chat page *)

\* how the ports treat one answer request: all answer, or the embedding port
\* fails in the first or in the second retrieval, or the generation port fails
PortFailures == {"none", "embed1", "embed2", "generate"}

\* Translator.answer_question(question) run to its end over the client state
\* st by a retriever of collection `name` and n chunks, the average coming
\* out as avg and the generation port saying out: what it returns or raises
answer_result(st, name, n, question, avg, fails, out) ==
    IF question_is_empty(question) THEN Raised("Question cannot be empty")
    ELSE IF fails = "embed1" THEN Raised("embedding port failed")
    ELSE IF BelowGate(avg)
    THEN Returned([answer |-> NO_INFO_ANSWER, context_used |-> <<>>, avg_relevance |-> avg])
    ELSE IF fails = "embed2" THEN Raised("embedding port failed")
    ELSE IF fails = "generate" THEN Raised("generation port failed")
    ELSE Returned([answer |-> out,
                   context_used |-> retrieve(st, name, n, question),
                   avg_relevance |-> avg])

\* the client state that request leaves
answer_store(st, name, question, fails) ==
    IF question_is_empty(question) \/ fails = "embed1" THEN st
    ELSE search_store(st, name)

\* the content of the assistant message for the exception e; the cross mark
\* that opens it is written (x), and the quotes around ollama serve are left
\* out
chat_error_content(e) ==
    <<Lit("(x) Error: "), Lit(e), Lit("\n\nMake sure Ollama is running: ollama serve")>>

\* a page that leaves a failed question without a reply
chat_messages_NoErrorReply(question, res) ==
    IF res.status = "ok"
    THEN <<[role |-> "user", content |-> question],
           [role |-> "assistant", content |-> res.val.answer,
            context |-> res.val.context_used]>>
    ELSE <<[role |-> "user", content |-> question]>>

\* render_chat_page: the messages it appends to chat_history for a question
\* on which answer_question returned or raised res
chat_messages(question, res) ==
    <<[role |-> "user", content |-> question],
      IF res.status = "ok"
      THEN [role |-> "assistant", content |-> res.val.answer,
            context |-> res.val.context_used]
      ELSE [role |-> "assistant", content |-> chat_error_content(res.err)]>>

\* render_chat_page: a question submitted in the chat input, the sidebar
\* being at `settings`
HandleQuestion(question, settings, fails, out) ==
    /\ session_state.processed_papers # <<>>
    /\ Truthy(question)
    /\ Len(session_state.chat_history) < 2 * MaxQuestions
    /\ LET ss == get_pipeline(session_state, settings)
           retriever == ss.pipelines[settings.model].retriever
       IN  \E avg \in average_similarity(retrieve(store, retriever.collection_name,
                                                  retriever.n_results, question)) :
             LET res == answer_result(store, retriever.collection_name,
                                      retriever.n_results, question, avg, fails, out)
             IN  /\ Call([Request("chat_question", question) EXCEPT
                             !.name = retriever.collection_name],
                         res)
                 /\ store' = answer_store(store, retriever.collection_name, question, fails)
                 /\ session_state' =
                       [ss EXCEPT !.chat_history = @ \o chat_messages(question, res)]
    /\ UNCHANGED <<callers, self_chunks, collection_name, n_results>>

\* render_chat_page: "Clear Chat History" pressed
ClearChatHistory ==
    /\ session_state.processed_papers # <<>>
    /\ session_state.chat_history # <<>>
    /\ Call([NoRequest EXCEPT !.op = "clear_chat_history"], Returned(<<>>))
    /\ session_state' = [session_state EXCEPT !.chat_history = <<>>]
    /\ UNCHANGED <<callers, self_chunks, store, collection_name, n_results>>

\* the questions asked in the chat
ChatQuestions == {Rep(" ", 1), Rep("a", 1), Rep("b", 1)}

ChatNext ==
    \/ \E file \in UploadedFiles : ProcessPaper(file)
    \/ \E question \in ChatQuestions, settings \in Settings, fails \in PortFailures :
          HandleQuestion(question, settings, fails, "out1")
    \/ ClearChatHistory
    \/ ClearAllPapers
    \/ StartSession

\* the Chat page of one session after another, papers being uploaded and
\* cleared; the pages use the retrievers of their pipelines, the one of
\* n_results and collection_name stays as it is
ChatInit == Init /\ n_results = MaxN

ChatSpec == ChatInit /\ [][ChatNext]_vars

-----------------------------------------------------------------------------

StoreNext ==
    \/ \E name \in CollNames : create_collection(name)
    \/ \E batch \in Batches : add_chunks(COLLECTION, batch, SameLengths(Len(batch)))
    \/ \E name \in CollNames : delete_collection(name)
    \/ \E n \in 1..MaxN : set_n_results(n)
    \/ \E name \in CollNames : set_collection(name)

\* the VectorStore called directly, with lists of any lengths, and the
\* Retriever's retrieve over it
VectorStoreNext ==
    \/ \E name \in CollNames : create_collection(name)
    \/ \E batch \in Batches :
          \E lengths \in Shapes(Len(batch)) : add_chunks(COLLECTION, batch, lengths)
    \/ \E name \in CollNames : delete_collection(name)
    \/ \E name \in CollNames, qe \in Vectors, n \in 1..MaxN : search(name, qe, n)
    \/ \E name \in CollNames : GetCollectionCount(name)
    \/ \E name \in CollNames : CollectionExists(name)
    \/ \E n \in 1..MaxN : set_n_results(n)
    \/ \E name \in CollNames : set_collection(name)
    \/ \E query \in Texts, ok \in BOOLEAN : retrieve_op(query, ok)

VectorStoreSpec == Init /\ [][VectorStoreNext]_vars

RetrieverNext ==
    \/ \E query \in Texts, ok \in BOOLEAN : retrieve_op(query, ok)
    \/ \E query \in Texts, ok \in BOOLEAN : retrieve_as_context(query, ok)
    \/ \E query \in Texts, ok \in BOOLEAN : retrieve_with_scores(query, ok)
    \/ \E query \in Texts, th \in Thresholds, ok \in BOOLEAN : is_relevant(query, th, ok)

AnswerNext ==
    \/ \E question \in Texts : answer_question(question)
    \/ \E ok \in BOOLEAN : AnswerRetrieve(ok)
    \/ AnswerGate
    \/ \E ok \in BOOLEAN : AnswerBuildPrompt(ok)
    \/ \E ok \in BOOLEAN, out \in LLMOutputs : AnswerGenerate(ok, out)

TranslateNext ==
    \/ \E text \in Texts, lang \in Languages, uc \in BOOLEAN : translate(text, lang, uc)
    \/ \E ok \in BOOLEAN : TranslateRetrieve(ok)
    \/ \E ok \in BOOLEAN, out \in LLMOutputs : TranslateGenerate(ok, out)
    \/ \E text \in Texts : simplify(text)
    \/ \E ok \in BOOLEAN, out \in LLMOutputs : SimplifyGenerate(ok, out)

\* another caller's add_chunks on the retriever's collection, at any moment
\* of the request in progress
OtherAddChunks(batch) ==
    /\ \E out \in add_chunks_outcomes(store, COLLECTION, batch, SameLengths(Len(batch))) :
          store' = out.store
    /\ UNCHANGED <<collection_name, n_results, pc, req, loc, embedLog, searchLog, llmLog,
                   result, self_chunks, session_state, callers>>

\* another caller's delete_collection on the retriever's collection, at any
\* moment of the request in progress
OtherDeleteCollection ==
    /\ COLLECTION \in DOMAIN store
    /\ store' = drop_collection(store, COLLECTION)
    /\ UNCHANGED <<collection_name, n_results, pc, req, loc, embedLog, searchLog, llmLog,
                   result, self_chunks, session_state, callers>>

InterleavedNext ==
    \/ AnswerNext
    \/ \E batch \in Batches : OtherAddChunks(batch)
    \/ OtherDeleteCollection

\* answer requests of one caller, other callers writing to the collection
\* between its steps
InterleavedSpec == Init /\ [][InterleavedNext]_vars

Next == StoreNext \/ RetrieverNext \/ AnswerNext \/ TranslateNext

Spec == Init /\ [][Next]_vars

-----------------------------------------------------------------------------
(* Properties *)

\* a text with no character that is not whitespace
AllWhitespace(t) == \A i \in 1..Len(t) : t[i].c \in Whitespace

Abs(x) == IF x < 0 THEN -x ELSE x

\* avg is the mean of the similarities of chunks, to the nearest 1e-4
IsRoundedMean(avg, chunks) ==
    IF chunks = <<>> THEN avg = 0
    ELSE 2 * Abs(avg * Len(chunks) - SumSimilarity(chunks)) <= Len(chunks)

\* the answer call got through its first retrieval
AnswerRetrieved == req.op = "answer" /\ Len(searchLog) >= 1

\* C1: an answer request whose retrieved chunks average below 0.25 (an empty
\* result averages 0.0) never invokes the generation port, and once past the
\* gate it has returned the fixed "couldn't find relevant information" answer
\* with an empty context_used and the relevance that was computed.
C1_LowRelevanceRejected ==
    (AnswerRetrieved /\ loc.avg_relevance < 2500) =>
        /\ llmLog = <<>>
        /\ IsRoundedMean(loc.avg_relevance, loc.chunks)
        /\ pc \in {"GATE", "idle"}
        /\ pc = "idle" =>
              /\ result.status = "ok"
              /\ result.val.answer =
                    "I couldn't find relevant information in the paper to answer this question."
              /\ result.val.context_used = <<>>
              /\ result.val.avg_relevance = loc.avg_relevance

\* C1 witness: a request rejected at the gate although chunks were retrieved
C1_Witness ==
    /\ AnswerRetrieved
    /\ pc = "idle"
    /\ loc.chunks # <<>>
    /\ loc.avg_relevance < 2500
    /\ result.status = "ok"
    /\ result.val.context_used = <<>>

\* C2, the order of the states: RETRIEVE is entered from START only, GATE
\* from RETRIEVE only, BUILD_PROMPT from GATE only and GENERATE from
\* BUILD_PROMPT only, and the generation port is invoked in GENERATE only
C2_Order ==
    /\ (pc' = "RETRIEVE" /\ pc # "RETRIEVE") => (pc = "idle" /\ req'.op = "answer")
    /\ (pc' = "GATE" /\ pc # "GATE") => (pc = "RETRIEVE" /\ Len(searchLog') = 1)
    /\ (pc' = "BUILD_PROMPT" /\ pc # "BUILD_PROMPT") =>
            (pc = "GATE" /\ loc.avg_relevance >= 2500)
    /\ (pc' = "GENERATE" /\ pc # "GENERATE") => pc = "BUILD_PROMPT"
    /\ (req'.op = "answer" /\ llmLog' # llmLog /\ llmLog' # <<>>) =>
            (pc = "GENERATE" /\ llmLog = <<>> /\ Len(searchLog) >= 1)

\* C2, the outcome: an answer request that got through the gate with an
\* average of 0.25 or more and has returned invoked the generation port
\* exactly once, and returned the port's output verbatim with the relevance
\* computed at the gate; no request is in GENERATE without a retrieval and a
\* passed gate behind it
C2_Outcome ==
    /\ (req.op = "answer" /\ pc = "idle" /\ result.status = "ok"
            /\ Len(searchLog) >= 1 /\ loc.avg_relevance >= 2500) =>
          /\ Len(llmLog) = 1
          /\ llmLog[1].response \in LLMOutputs
          /\ result.val.answer = llmLog[1].response
          /\ result.val.avg_relevance = loc.avg_relevance
          /\ IsRoundedMean(loc.avg_relevance, loc.chunks)
    /\ pc = "GENERATE" =>
          /\ req.op = "answer"
          /\ Len(searchLog) >= 1
          /\ loc.avg_relevance >= 2500
          /\ llmLog = <<>>

\* C2: every answer request follows START -> RETRIEVE -> GATE ->
\* {REJECT | BUILD_PROMPT -> GENERATE -> RETURN}; with an average similarity
\* of 0.25 or more a request that returns has invoked the generation port
\* exactly once, after retrieval and gate, and returns its output verbatim
\* with the relevance computed at the gate.
C2_StateMachine == [][C2_Order]_vars /\ [](C2_Outcome)

\* C2 witness: a request answered by the generation port with an average of
\* exactly 0.25
C2_Witness ==
    /\ req.op = "answer"
    /\ pc = "idle"
    /\ result.status = "ok"
    /\ loc.avg_relevance = 2500
    /\ Len(llmLog) = 1
    /\ result.val.answer = "out2"

\* a step made by one of the read-side operations
ReadOps ==
    {"answer", "translate", "simplify", "retrieve", "retrieve_as_context",
     "retrieve_with_scores", "is_relevant"}

\* C3: the read-side operations answer, translate, simplify, retrieve,
\* retrieve_as_context, retrieve_with_scores and is_relevant leave the Vector
\* Index as it was: the same collections exist, with the same contents, also
\* when the retriever's collection was never created.
C3_ReadsLeaveIndexUnchanged == [][req'.op \in ReadOps => store' = store]_vars

\* the languages of the fixed list
SupportedSet == {SUPPORTED_LANGUAGES[i] : i \in 1..Len(SUPPORTED_LANGUAGES)}

NoPortInvoked == embedLog = <<>> /\ searchLog = <<>> /\ llmLog = <<>>

\* C4: translate checks its inputs before it invokes any port: a blank text
\* fails with InvalidInput, otherwise a target_language outside the fixed list
\* fails with UnsupportedLanguage, and in both cases neither the embedding
\* port, the search nor the generation port is invoked.
C4_TranslateValidates ==
    req.op = "translate" =>
        /\ AllWhitespace(req.text) =>
              /\ pc = "idle"
              /\ result.status = "raised"
              /\ ErrorKind(result.err) = "InvalidInput"
              /\ NoPortInvoked
        /\ (~AllWhitespace(req.text) /\ req.lang \notin SupportedSet) =>
              /\ pc = "idle"
              /\ result.status = "raised"
              /\ ErrorKind(result.err) = "UnsupportedLanguage"
              /\ NoPortInvoked

\* C4 witness: a text that is not blank refused for its language
C4_Witness ==
    /\ req.op = "translate"
    /\ ~AllWhitespace(req.text)
    /\ req.lang = "Klingon"
    /\ req.use_context
    /\ result.status = "raised"

\* C5: answer with an empty or whitespace-only question fails with
\* InvalidInput before any retrieval: the request never leaves START and
\* invokes neither the embedding port, the search nor the generation port.
C5_BlankQuestionRejected ==
    (req.op = "answer" /\ AllWhitespace(req.text)) =>
        /\ pc = "idle"
        /\ result.status = "raised"
        /\ ErrorKind(result.err) = "InvalidInput"
        /\ NoPortInvoked

\* C5 witness: a whitespace-only question refused
C5_Witness ==
    /\ req.op = "answer"
    /\ req.text = <<[c |-> " ", n |-> 1]>>
    /\ result.status = "raised"

\* q is the text t cut after its first k characters
IsFirstChars(q, t, k) ==
    /\ StrLen(q) = (IF StrLen(t) < k THEN StrLen(t) ELSE k)
    /\ Len(q) <= Len(t)
    /\ \A i \in 1..Len(q) :
          /\ q[i].c = t[i].c
          /\ IF i < Len(q) THEN q[i].n = t[i].n ELSE q[i].n <= t[i].n

\* the [Reference i]: text entries of a message, in order
RECURSIVE ReferencesOf(_)
ReferencesOf(content) ==
    IF content = <<>> THEN <<>>
    ELSE IF Head(content).k = "lit" /\ Head(content).lit = "[Reference "
    THEN <<[num |-> content[2].num, text |-> content[4].txt]>> \o ReferencesOf(Tail(content))
    ELSE ReferencesOf(Tail(content))

\* the message has a reference section
HasReferenceSection(content) ==
    \E i \in 1..Len(content) :
        /\ content[i].k = "lit"
        /\ content[i].lit \in
              {"Use this reference context for correct technical terminology:\n\n",
               "[Reference "}

\* C6: translate with use_context retrieves with exactly the first 200
\* characters of text (the whole text when shorter), and the reference section
\* of its prompt holds the first min(2, n) chunks of the retrieval result, in
\* retrieval order, numbered from 1.
C6_TranslateContext ==
    (req.op = "translate" /\ req.use_context) =>
        /\ Len(embedLog) <= 1
        /\ Len(searchLog) <= Len(embedLog)
        /\ embedLog # <<>> => IsFirstChars(embedLog[1], req.text, 200)
        /\ searchLog # <<>> =>
              /\ searchLog[1].query_embedding = embed_single(embedLog[1])
              /\ searchLog[1].name = collection_name
              /\ searchLog[1].n_results = n_results
        /\ loc.messages # <<>> =>
              /\ loc.chunks = search_chunks(store, collection_name,
                                            searchLog[1].query_embedding, n_results)
              /\ ReferencesOf(loc.messages[2].content) =
                    [i \in 1..(IF Len(loc.chunks) < 2 THEN Len(loc.chunks) ELSE 2) |->
                        [num |-> i, text |-> loc.chunks[i].text]]
        /\ llmLog # <<>> => llmLog[1].messages = loc.messages

\* C6 witness: a text of more than 200 characters translated with three
\* chunks retrieved
C6_Witness ==
    /\ req.op = "translate"
    /\ req.use_context
    /\ StrLen(req.text) > 200
    /\ Len(loc.chunks) = 3
    /\ pc = "idle"
    /\ result.status = "ok"

\* C7: the context_used translate returns holds only the chunks used as
\* terminology reference in the prompt, never more than 2 chunks, whatever
\* n_results is.
C7_ContextUsedIsReferences ==
    (req.op = "translate" /\ pc = "idle" /\ result.status = "ok") =>
        /\ Len(result.val.context_used) <= 2
        /\ [i \in 1..Len(result.val.context_used) |-> result.val.context_used[i].text]
              = [i \in 1..Len(ReferencesOf(llmLog[1].messages[2].content)) |->
                    ReferencesOf(llmLog[1].messages[2].content)[i].text]

\* C8: the prompt translate sends to the generation port has a reference
\* section if and only if use_context is true and retrieval returned at least
\* one chunk; with use_context false nothing is retrieved (no embedding, no
\* search) and context_used is empty.
C8_ReferenceSection ==
    req.op = "translate" =>
        /\ llmLog # <<>> =>
              (HasReferenceSection(llmLog[1].messages[2].content)
                  <=> (req.use_context /\ Len(searchLog) = 1 /\ Len(loc.chunks) >= 1))
        /\ ~req.use_context =>
              /\ embedLog = <<>>
              /\ searchLog = <<>>
              /\ (pc = "idle" /\ result.status = "ok") => result.val.context_used = <<>>

\* C8 witness: a translation with use_context whose retrieval found nothing
C8_Witness ==
    /\ req.op = "translate"
    /\ req.use_context
    /\ Len(searchLog) = 1
    /\ loc.chunks = <<>>
    /\ pc = "idle"
    /\ result.status = "ok"
    /\ ~HasReferenceSection(llmLog[1].messages[2].content)

\* C9: simplify retrieves nothing (no embedding, no search), invokes the
\* generation port exactly once, and returns the port's output with original
\* equal to the text it was given.
C9_Simplify ==
    req.op = "simplify" =>
        /\ embedLog = <<>>
        /\ searchLog = <<>>
        /\ Len(llmLog) = (IF pc = "idle" THEN 1 ELSE 0)
        /\ (pc = "idle" /\ result.status = "ok") =>
              /\ llmLog[1].response \in LLMOutputs
              /\ result.val.simplified = llmLog[1].response
              /\ result.val.original = req.text

\* C9 witness: a text with leading whitespace simplified
C9_Witness ==
    /\ req.op = "simplify"
    /\ pc = "idle"
    /\ result.status = "ok"
    /\ StrLen(req.text) > 200
    /\ req.text[1].c = " "

\* C10: create_collection is idempotent: called with the name of a collection
\* that exists, whatever was added to it, it does not fail, returns a handle
\* to that collection, and leaves every collection's chunks and count as
\* they were.
C10_CreateIdempotent ==
    [][(req'.op = "create_collection" /\ req'.name \in DOMAIN store) =>
          /\ result'.status = "ok"
          /\ result'.val.collection = req'.name
          /\ req'.name \in DOMAIN store'
          /\ store' = store
          /\ Cardinality(store'[req'.name]) = Cardinality(store[req'.name])]_vars

\* C10 witness: create_collection returned for a collection that holds chunks
C10_Witness ==
    /\ req.op = "create_collection"
    /\ result.status = "ok"
    /\ req.name \in DOMAIN store
    /\ Cardinality(store[req.name]) >= 2

\* the collection `name` does not exist or holds no chunk
HoldsNothing(st, name) == name \notin DOMAIN st \/ st[name] = {}

\* C11: search never fails with CollectionNotFound: on a collection that
\* exists but holds no vector, and on one that was never created, it returns
\* an empty result instead of raising; so does a retrieve that reaches it.
C11_SearchNeverNotFound ==
    [][/\ req'.op = "search" => result'.status = "ok"
       /\ (req'.op = "search" /\ HoldsNothing(store, req'.name)) =>
              result' = Returned(<<>>)
       /\ (req'.op = "retrieve" /\ searchLog' # <<>>
              /\ HoldsNothing(store, collection_name)) =>
              result' = Returned(<<>>)]_vars

\* C11 witness: a search of a collection that holds nothing, asked for two
\* results or more while another collection holds chunks, returned empty
C11_Witness ==
    /\ req.op = "search"
    /\ req.name = "other"
    /\ searchLog[1].n_results >= 2
    /\ store["other"] = {}
    /\ "research_papers" \in DOMAIN store
    /\ store["research_papers"] # {}
    /\ result = Returned(<<>>)

\* the last call was a search, or a retrieve that got to its search, and returned
SearchReturned ==
    /\ req.op \in {"search", "retrieve"}
    /\ searchLog # <<>>
    /\ result.status = "ok"

\* the result list: at most k long and at most count(collection), by
\* ascending distance and so by non-increasing similarity
SearchBoundedAndOrdered(val, k, count) ==
    /\ Len(val) <= k
    /\ Len(val) <= count
    /\ \A i \in 1..Len(val) - 1 :
          /\ val[i].distance <= val[i + 1].distance
          /\ val[i].similarity >= val[i + 1].similarity

\* retrieve returns what search returns for the embedding of its query
RetrieveIsSearch ==
    (req.op = "retrieve" /\ result.status = "ok") =>
        /\ searchLog[1] = [name |-> collection_name,
                           query_embedding |-> embed_single(embedLog[1]),
                           n_results |-> n_results]
        /\ embedLog = <<req.text>>
        /\ result = search_result(store, collection_name,
                                  searchLog[1].query_embedding, n_results)

\* C12 as stated: search returns at most k results and at most
\* count(collection), by ascending cosine distance, each similarity equal to
\* 1 - distance, and retrieve returns that sequence unmodified.
C12_SimilarityIsOneMinusDistance ==
    /\ SearchReturned =>
          /\ SearchBoundedAndOrdered(result.val, searchLog[1].n_results,
                                     get_collection_count(store, searchLog[1].name))
          /\ \A i \in 1..Len(result.val) :
                100 * result.val[i].similarity = 1000000 - result.val[i].distance
    /\ RetrieveIsSearch

\* C12, amended: search returns at most k results and at most
\* count(collection), by ascending cosine distance, each similarity equal to
\* 1 - distance rounded to 4 decimals, so similarity is non-increasing along
\* the result; retrieve returns that sequence, in the same order, unmodified.
C12_SearchOrder ==
    /\ SearchReturned =>
          /\ SearchBoundedAndOrdered(result.val, searchLog[1].n_results,
                                     get_collection_count(store, searchLog[1].name))
          /\ \A i \in 1..Len(result.val) :
                2 * Abs(100 * result.val[i].similarity
                          - (1000000 - result.val[i].distance)) <= 100
    /\ RetrieveIsSearch

\* C12 witness: a retrieve that returned three chunks at three distances,
\* one of them with more than 4 decimals
C12_Witness ==
    /\ req.op = "retrieve"
    /\ result.status = "ok"
    /\ Len(result.val) = 3
    /\ result.val[1].distance < result.val[2].distance
    /\ result.val[2].distance < result.val[3].distance
    /\ \E i \in 1..3 : result.val[i].distance % 100 # 0

\* C13: delete_collection never fails, also on a collection that does not
\* exist (which it leaves as it is); after it, whatever was added before,
\* the collection is gone, and count and exists_with_data of a collection
\* that does not exist (deleted or never created) return 0 and false rather
\* than failing.
C13_DeleteIdempotent ==
    [][/\ req'.op = "delete_collection" =>
              /\ result'.status = "ok"
              /\ req'.name \notin DOMAIN store'
              /\ req'.name \notin DOMAIN store => store' = store
              /\ \A n \in DOMAIN store \ {req'.name} :
                    n \in DOMAIN store' /\ store'[n] = store[n]
       /\ req'.op = "get_collection_count" =>
              /\ result'.status = "ok"
              /\ req'.name \notin DOMAIN store => result'.val = 0
              /\ req'.name \in DOMAIN store =>
                    result'.val = Cardinality(store[req'.name])
       /\ req'.op = "collection_exists" =>
              /\ result'.status = "ok"
              /\ req'.name \notin DOMAIN store => result'.val = FALSE
              /\ req'.name \in DOMAIN store =>
                    (result'.val <=> store[req'.name] # {})]_vars

\* C13 witness: delete_collection returned for the application's collection,
\* which is gone while the other collection is still there
C13_Witness ==
    /\ req.op = "delete_collection"
    /\ req.name = "research_papers"
    /\ result.status = "ok"
    /\ "research_papers" \notin DOMAIN store
    /\ "other" \in DOMAIN store
    /\ get_collection_count(store, "research_papers") = 0

\* C14: add with ids, vectors, texts and metadatas that are not all of the
\* same length fails with ShapeMismatch, inserts no chunk and leaves
\* count(collection) as it was.
C14_ShapeMismatch ==
    [][(req'.op = "add_chunks"
          /\ \E i \in 1..4, j \in 1..4 : req'.lengths[i] # req'.lengths[j]) =>
            /\ result'.status = "raised"
            /\ ErrorKind(result'.err) = "ShapeMismatch"
            /\ store'[req'.name] =
                  (IF req'.name \in DOMAIN store THEN store[req'.name] ELSE {})
            /\ get_collection_count(store', req'.name)
                  = get_collection_count(store, req'.name)]_vars

\* C14 witness: an add with one text too few refused, the collection holding
\* the two chunks it held
C14_Witness ==
    /\ req.op = "add_chunks"
    /\ req.lengths[3] < req.lengths[1]
    /\ req.lengths[2] = req.lengths[1]
    /\ result.status = "raised"
    /\ req.name \in DOMAIN store
    /\ Cardinality(store[req.name]) = 2

\* C19: after a successful split that made n chunks, chunk_index runs over
\* 0..n-1 in output order, every total_chunks is n, every char_count is the
\* length of the chunk's text, and every id is the one made of (source_name,
\* chunk_index): the ids of the split are pairwise distinct, and no other
\* pair of a source name and an index makes the id of a chunk.
C19_SplitMetadata ==
    /\ \A i \in 1..Len(self_chunks) :
          /\ self_chunks[i].metadata.chunk_index = i - 1
          /\ self_chunks[i].metadata.total_chunks = Len(self_chunks)
          /\ self_chunks[i].metadata.char_count = StrLen(self_chunks[i].text)
          /\ self_chunks[i].id = ChunkId(self_chunks[i].metadata.source, i - 1)
          /\ \A s \in ChunkerSources, j \in 0..MaxIndex :
                ChunkId(s, j) = self_chunks[i].id =>
                    (s = self_chunks[i].metadata.source /\ j = i - 1)
    /\ \A i \in 1..Len(self_chunks), j \in 1..Len(self_chunks) :
          i # j => self_chunks[i].id # self_chunks[j].id
    /\ (req.op = "split" /\ result.status = "ok") =>
          /\ Len(self_chunks) = Len(loc.raw_chunks)
          /\ \A i \in 1..Len(self_chunks) :
                /\ self_chunks[i].text = loc.raw_chunks[i]
                /\ self_chunks[i].metadata.source = req.source_name

\* C19 witness: a split that made three chunks, two of them of the same text,
\* for a source name that itself ends like an id
C19_Witness ==
    /\ req.op = "split"
    /\ result.status = "ok"
    /\ Len(self_chunks) = 3
    /\ self_chunks[1].text = self_chunks[3].text
    /\ self_chunks[1].text # self_chunks[2].text
    /\ Len(req.source_name) > 2

\* C20: split fails with InvalidInput when text is empty or entirely
\* whitespace, and a failed split leaves the chunks of the Chunker as they
\* were: get_chunks, get_ids_only, get_texts_only and get_chunk_count report
\* the chunks of the last successful split.
C20_FailedSplitKeepsChunks ==
    [][/\ (req'.op = "split" /\ AllWhitespace(req'.text)) =>
              /\ result'.status = "raised"
              /\ ErrorKind(result'.err) = "InvalidInput"
       /\ (req'.op = "split" /\ result'.status = "raised") =>
              self_chunks' = self_chunks
       /\ req'.op \in {"get_chunks", "get_ids_only", "get_texts_only", "get_chunk_count"} =>
              /\ self_chunks' = self_chunks
              /\ result'.status = "ok"
       /\ req'.op = "get_chunks" => result'.val = self_chunks
       /\ req'.op = "get_chunk_count" => result'.val = Len(self_chunks)
       /\ req'.op = "get_ids_only" =>
              /\ Len(result'.val) = Len(self_chunks)
              /\ \A i \in 1..Len(self_chunks) : result'.val[i] = self_chunks[i].id
       /\ req'.op = "get_texts_only" =>
              /\ Len(result'.val) = Len(self_chunks)
              /\ \A i \in 1..Len(self_chunks) : result'.val[i] = self_chunks[i].text]_vars

\* C20 witness: a split of a text of whitespace refused by a Chunker that
\* holds the two chunks of an earlier split
C20_Witness ==
    /\ req.op = "split"
    /\ StrLen(req.text) = 2
    /\ AllWhitespace(req.text)
    /\ result.status = "raised"
    /\ Len(self_chunks) = 2

\* the ids the collection `name` holds
StoredIds(st, name) == IF name \in DOMAIN st THEN {x.id : x \in st[name]} ELSE {}

\* C15: over any sequence of uploads, arXiv imports, Clear All Papers and
\* new sessions, the "already processed" check keeps add from being invoked
\* with an id (source_name + chunk index) the persistent collection already
\* holds.
C15_AddNeverMeetsStoredId ==
    [][req'.op \in {"process_paper", "import_paper"} =>
          \A i \in 1..Len(req'.batch) :
              ChunkPool[req'.batch[i]].id \notin StoredIds(store, "research_papers")]_vars

\* the chunks the last call's search found, the index being as the call left it
LastSearchChunks ==
    search_chunks(store, searchLog[1].name, searchLog[1].query_embedding,
                  searchLog[1].n_results)

\* the averages that are the mean of the similarities of chunks to the
\* nearest 1e-4
RoundedMeans(chunks) ==
    IF chunks = <<>> THEN {0}
    ELSE {avg \in (SumSimilarity(chunks) \div Len(chunks) - 1)
                    ..(SumSimilarity(chunks) \div Len(chunks) + 1) :
             IsRoundedMean(avg, chunks)}

\* C16 as stated: retrieve_with_scores returns the mean of the similarities
\* of the chunks it retrieved, 0.0 for none, and is_relevant is true exactly
\* when that mean is >= threshold.
C16_AverageIsMean ==
    /\ (req.op = "retrieve_with_scores" /\ result.status = "ok") =>
          /\ result.val[1] = LastSearchChunks
          /\ result.val[2] * Len(result.val[1]) = SumSimilarity(result.val[1])
    /\ (req.op = "is_relevant" /\ result.status = "ok") =>
          IF LastSearchChunks = <<>> THEN result.val <=> 0 >= req.threshold
          ELSE result.val <=>
                 SumSimilarity(LastSearchChunks) >= req.threshold * Len(LastSearchChunks)

\* C16, amended: retrieve_with_scores returns as average similarity the mean
\* of the similarities of the chunks it retrieved rounded to 4 decimals, and
\* 0.0 for an empty result; is_relevant(query, threshold) is true exactly
\* when that rounded average is >= threshold, hence false whenever the
\* average is 0.0 and threshold > 0.0.
C16_AverageAndRelevance ==
    /\ (req.op = "retrieve_with_scores" /\ result.status = "ok") =>
          /\ result.val[1] = LastSearchChunks
          /\ IsRoundedMean(result.val[2], result.val[1])
          /\ result.val[1] = <<>> => result.val[2] = 0
    /\ (req.op = "is_relevant" /\ result.status = "ok") =>
          /\ \E avg \in RoundedMeans(LastSearchChunks) :
                result.val <=> avg >= req.threshold
          /\ (0 \in RoundedMeans(LastSearchChunks) /\ req.threshold > 0) =>
                result.val = FALSE

\* C16 witness: retrieve_with_scores returned three chunks whose mean has
\* more than 4 decimals
C16_Witness ==
    /\ req.op = "retrieve_with_scores"
    /\ result.status = "ok"
    /\ Len(result.val[1]) = 3
    /\ SumSimilarity(result.val[1]) % 3 # 0

\* C17: retrieve_as_context returns the string "No relevant context found."
\* if and only if retrieval found nothing; otherwise one labeled block per
\* chunk, numbered 1..n in retrieval order, each with the chunk's source,
\* similarity and raw text, the blocks joined by the separator: so an empty
\* result never reads like one with chunks of low similarity.
C17_ContextOrSentinel ==
    (req.op = "retrieve_as_context" /\ result.status = "ok") =>
        /\ (result.val = <<[k |-> "lit", lit |-> "No relevant context found."]>>)
              <=> (LastSearchChunks = <<>>)
        /\ LastSearchChunks # <<>> =>
              /\ Len(result.val) = 9 * Len(LastSearchChunks) - 1
              /\ \A i \in 1..Len(LastSearchChunks) :
                    LET b == 9 * (i - 1)
                    IN  /\ result.val[b + 1] = [k |-> "lit", lit |-> "[CONTEXT "]
                        /\ result.val[b + 2] = [k |-> "num", num |-> i]
                        /\ result.val[b + 3] = [k |-> "lit", lit |-> " | Source: "]
                        /\ result.val[b + 4] =
                              [k |-> "txt", txt |-> LastSearchChunks[i].metadata.source]
                        /\ result.val[b + 5] = [k |-> "lit", lit |-> " | Relevance: "]
                        /\ result.val[b + 6] =
                              [k |-> "num", num |-> LastSearchChunks[i].similarity]
                        /\ result.val[b + 7] = [k |-> "lit", lit |-> "]\n"]
                        /\ result.val[b + 8] =
                              [k |-> "txt", txt |-> LastSearchChunks[i].text]
                        /\ i < Len(LastSearchChunks) =>
                              result.val[b + 9] = [k |-> "lit", lit |-> "\n\n---\n\n"]

\* C17 witness: a context of two blocks, the second with a similarity of 0.0
C17_Witness ==
    /\ req.op = "retrieve_as_context"
    /\ result.status = "ok"
    /\ Len(LastSearchChunks) = 2
    /\ LastSearchChunks[2].similarity = 0
    /\ Len(result.val) = 17

\* the methods of the Retriever that retrieve
RetrieverOps == {"retrieve", "retrieve_as_context", "retrieve_with_scores", "is_relevant"}

\* C18: retrieve with an empty or whitespace-only query fails with
\* InvalidInput before the embedding port or the Vector Index is invoked, and
\* so do retrieve_as_context, retrieve_with_scores and is_relevant.
C18_BlankQueryRejected ==
    (req.op \in RetrieverOps /\ AllWhitespace(req.text)) =>
        /\ pc = "idle"
        /\ result.status = "raised"
        /\ ErrorKind(result.err) = "InvalidInput"
        /\ NoPortInvoked

\* C18 witness: is_relevant refused a query of whitespace
C18_Witness ==
    /\ req.op = "is_relevant"
    /\ req.text = <<[c |-> " ", n |-> 1]>>
    /\ req.threshold = 3000
    /\ result.status = "raised"

\* C27: whenever processed_papers is not empty and the selected paper's text
\* is available, "Find Similar Papers" does not fail with "Embedder required
\* for recommendations": the ArxivClient kept in the session state has an
\* embedder whenever the session has one, whatever the order of arXiv search,
\* arXiv import and PDF upload was.
C27_RecommendationsHaveEmbedder ==
    /\ (session_state.embedder /\ session_state.arxiv_client # "none") =>
            session_state.arxiv_client = "with_embedder"
    /\ (req.op = "find_similar" /\ req.text \in session_state.papers_text) =>
            result.val # "Recommendation failed: Embedder required for recommendations"

\* C22: the pipeline cache keyed by the model has create-if-absent
\* semantics: between two clears get_pipeline makes the Retriever and
\* Translator of a model at most once, every call, from the Chat or the
\* Translate page, returns that one instance, made over the session's one
\* embedder and vector store, also when two first calls for the model
\* interleave.
C22_PipelineMadeOnce ==
    /\ \A m \in DOMAIN session_state.pipelines :
          /\ session_state.pipelines[m].serial = 1
          /\ session_state.embedder
          /\ session_state.vector_store
    /\ \A c \in Callers :
          (callers[c].pc = "idle" /\ callers[c].returned # <<>>) =>
              callers[c].returned.serial = 1

\* C28: the pipeline get_pipeline(settings) returns retrieves
\* settings["n_results"] chunks per query: whatever the sidebar changes to
\* n_results and model were, the retriever of the returned pipeline has
\* n_results equal to the current setting.
C28_PipelineFollowsSlider ==
    \A c \in Callers :
        (callers[c].pc = "idle" /\ callers[c].returned # <<>>) =>
            /\ callers[c].returned.translator.model_name = callers[c].settings.model
            /\ callers[c].returned.retriever.n_results = callers[c].settings.n_results

\* C23: the core does not retry: when the embedding port or the generation
\* port fails during answer, translate or simplify, the request has invoked
\* that port exactly once, the failure is what the caller gets, and no result
\* dictionary is returned.
C23_FailedPortInvokedOnce ==
    (req.op \in {"answer", "translate", "simplify"} /\ pc = "idle") =>
        /\ (llmLog # <<>> /\ llmLog[Len(llmLog)].response = "failed") =>
              /\ result = Raised("generation port failed")
              /\ Len(llmLog) = 1
        /\ result.err = "embedding port failed" =>
              /\ result = Raised("embedding port failed")
              /\ Len(embedLog) = 1
              /\ llmLog = <<>>

\* C25: in answer the chunks returned as context_used are the chunks rendered
\* into the context block of the prompt sent to the generation port, in the
\* same order, also when another caller adds to the collection or deletes it
\* between the retrieval for the gate and the retrieval for the context.
C25_ContextUsedIsPromptContext ==
    (req.op = "answer" /\ pc = "idle" /\ result.status = "ok" /\ Len(llmLog) = 1) =>
        llmLog[1].messages =
            Messages(QA_SYSTEM, qa_human(format_context(result.val.context_used), req.text))

\* the averages retrieve_with_scores may give for the query, as things are
AveragesNow(query) ==
    average_similarity(retrieve(store, collection_name, n_results, query))

\* C24, the two cutoffs: is_relevant returns whether the average reaches the
\* threshold it was given, so false with the default 0.3 for an average a with
\* 0.25 <= a < 0.3; an answer request with such an average, 0.25 itself
\* included, is not rejected at the gate: it goes on to the generation port
\* and, unless a port fails, returns what that port said
C24_Cutoffs ==
    /\ (req.op = "is_relevant" /\ result.status = "ok") =>
          /\ \E a \in AveragesNow(req.text) : result.val = (a >= req.threshold)
          /\ (req.threshold = 3000
                /\ \A a \in AveragesNow(req.text) : 2500 <= a /\ a < 3000) =>
                 result.val = FALSE
    /\ (AnswerRetrieved /\ 2500 <= loc.avg_relevance /\ loc.avg_relevance < 3000) =>
          /\ pc # "idle" => (pc \in {"GATE", "BUILD_PROMPT", "GENERATE"} /\ result = NoResult)
          /\ (pc = "idle" /\ result.status = "ok") =>
                /\ Len(llmLog) = 1
                /\ result.val.answer = llmLog[1].response
                /\ result.val.avg_relevance = loc.avg_relevance
          /\ (pc = "idle" /\ result.status = "raised") =>
                ErrorKind(result.err) = "UpstreamFailure"

\* C24, the threshold and answer: an is_relevant call, whatever threshold it
\* is given, leaves everything an answer request reads as it was: the
\* retriever's configuration and the contents of every collection (a
\* collection it creates is empty, which is what a search makes of a missing
\* one anyway)
C24_ThresholdLeavesAnswer ==
    req'.op = "is_relevant" =>
        /\ collection_name' = collection_name
        /\ n_results' = n_results
        /\ \A name \in DOMAIN store' :
              store'[name] = IF name \in DOMAIN store THEN store[name] ELSE {}
        /\ DOMAIN store \subseteq DOMAIN store'

\* C24: the orchestrator's gate (0.25) and the retriever's advisory threshold
\* (default 0.3) are separate cutoffs: with an average similarity a such that
\* 0.25 <= a < 0.3 answer proceeds to generation (the gate is strict, a = 0.25
\* passes) while is_relevant with its default threshold returns false, and
\* the threshold passed to is_relevant never changes the outcome of answer.
C24_SeparateCutoffs == [](C24_Cutoffs) /\ [][C24_ThresholdLeavesAnswer]_vars

\* C24 witness: an answer request with an average between 0.25 and 0.3 that
\* got its answer from the generation port
C24_Witness ==
    /\ req.op = "answer"
    /\ pc = "idle"
    /\ 2500 <= loc.avg_relevance
    /\ loc.avg_relevance < 3000
    /\ result.status = "ok"
    /\ Len(llmLog) = 1
    /\ \A a \in AveragesNow(req.text) : a < DefaultThreshold

\* C26: translate does not fail with InvalidInput for a text that is not
\* blank and a supported target_language, with use_context true or false; a
\* text whose first 200 characters are whitespace and that has other
\* characters after them is translated.
C26_NonBlankTextAccepted ==
    (req.op = "translate" /\ ~AllWhitespace(req.text) /\ req.lang \in SupportedSet) =>
        /\ result.status = "raised" => ErrorKind(result.err) # "InvalidInput"
        /\ (pc = "idle" /\ result.status # "raised") =>
              /\ result.status = "ok"
              /\ Len(llmLog) = 1
              /\ result.val.translation = llmLog[1].response

\* C29: after "Clear All Papers" ran without an error the persistent
\* collection "research_papers" holds no chunk, and processed_papers,
\* chat_history, papers_text and every cached pipeline are reset, in every
\* session state, that of a session just started over a collection that
\* still holds chunks on disk included.
C29_ClearAllPapersClears ==
    (req.op = "clear_all_papers" /\ result = Returned("cleared")) =>
        /\ get_collection_count(store, "research_papers") = 0
        /\ session_state.processed_papers = <<>>
        /\ session_state.chat_history = <<>>
        /\ session_state.papers_text = {}
        /\ DOMAIN session_state.pipelines = {}

\* chat_history is user, assistant, user, assistant, ...
Alternates(history) ==
    /\ Len(history) % 2 = 0
    /\ \A i \in 1..Len(history) :
          history[i].role = IF i % 2 = 1 THEN "user" ELSE "assistant"

\* C30, the history: it alternates, from a user message on, and its length
\* is even
C30_History == Alternates(session_state.chat_history)

\* C30, a question: handling it appends the user message with the question
\* and then one assistant message: the answer answer_question returned, that
\* of the relevance gate included, or the error text if it raised
C30_Question ==
    req'.op = "chat_question" =>
        LET old == session_state.chat_history
            new == session_state'.chat_history
        IN  /\ Len(new) = Len(old) + 2
            /\ \A i \in 1..Len(old) : new[i] = old[i]
            /\ new[Len(old) + 1] = [role |-> "user", content |-> req'.text]
            /\ new[Len(new)].role = "assistant"
            /\ result'.status = "ok" =>
                  new[Len(new)].content = result'.val.answer
            /\ result'.status = "raised" =>
                  /\ \E k \in 1..Len(new[Len(new)].content) :
                        new[Len(new)].content[k] = Lit(result'.err)
                  /\ new[Len(new)].content[1] = Lit("(x) Error: ")

====
